---- MODULE Spec2Model ----
(***************************************************************************)
(* LiveDraftArena: the DraftRoom state machine and the Lobby registry of   *)
(* contracts/livedraft-arena.                                              *)
(*                                                                         *)
(* An Option<T> value is modelled as a set: {} is None, {x} is Some(x).    *)
(* A panic aborts the operation at the statement that raises it; the       *)
(* handlers below return the instance as it stands at that statement       *)
(* together with the error, and the instance as it stands at the end       *)
(* together with "Ok" otherwise.                                           *)
(***************************************************************************)
EXTENDS Integers, Sequences, FiniteSets, TLC

\* room:   the fields of one DraftRoom instance
\* rooms:  the Lobby's registry, chain id -> DraftRoomMetadata
\* opened: the chains the Lobby has opened, chain id -> ContractParameters
\* last:   the last operation submitted and how it ended
\* log:    the successful PickItem operations since StartDraft, in order
VARIABLES room, rooms, opened, last, log, instances

vars == <<room, rooms, opened, last, log, instances>>

\* ------------------------------------------------------------------ bounds

\* Number of distinct identities (Owner values) that submit operations.
MaxOwners == 3

\* Number of rooms the Lobby creates.
MaxRooms == 1

\* ------------------------------------------------------- program constants

\* Width of the u8 counters (current_turn, round, max_players, item ids).
U8Mod == 256

\* The capacity range the Lobby accepts.
MinPlayers == 2

MaxPlayers == 8

U8(x) == x % U8Mod

Owners == 1..MaxOwners

\* The signer the runtime attaches to an operation: None or Some(owner).
Signers == {{}} \cup {{o} : o \in Owners}

Some(x) == {x}

Unwrap(opt) == CHOOSE x \in opt : TRUE

\* ------------------------------------------------------------ item catalog

Item(i, n, p) == [id |-> i, name |-> n, power |-> p]

initialize_pool ==
    << Item(1, "Lightning Bolt", 100),
       Item(2, "Counterspell", 90),
       Item(3, "Giant Growth", 80),
       Item(4, "Dark Ritual", 85),
       Item(5, "Healing Salve", 70),
       Item(6, "Ancestral Recall", 95),
       Item(7, "Black Lotus", 100),
       Item(8, "Mox Pearl", 90),
       Item(9, "Time Walk", 95),
       Item(10, "Swords to Plowshares", 85),
       Item(11, "Force of Will", 90),
       Item(12, "Brainstorm", 75),
       Item(13, "Sol Ring", 85),
       Item(14, "Path to Exile", 80),
       Item(15, "Demonic Tutor", 90) >>

CatalogIds == {initialize_pool[k].id : k \in 1..Len(initialize_pool)}

\* ------------------------------------------------------- sequence helpers

Range(s) == {s[k] : k \in 1..Len(s)}

\* Vec::contains
Contains(s, x) == \E k \in 1..Len(s) : s[k] = x

\* Mutant of Position: a lookup that falls back to the first entry
\* (unwrap_or(0)) when no entry matches.
Position_OrFirst(pool, item_id) ==
    LET hits == {k \in 1..Len(pool) : pool[k].id = item_id}
    IN  IF hits = {} THEN (IF pool = <<>> THEN {} ELSE {0})
        ELSE {(CHOOSE k \in hits : \A j \in hits : k <= j) - 1}

\* Iterator::position(|item| item.id == item_id): the 0-based index of the
\* first match as Some(index), or None.
Position(pool, item_id) ==
    LET hits == {k \in 1..Len(pool) : pool[k].id = item_id}
    IN  IF hits = {} THEN {}
        ELSE Some((CHOOSE k \in hits : \A j \in hits : k <= j) - 1)

\* Mutant of Remove: pop() in place of remove(index).
Remove_Last(s, index) == SubSeq(s, 1, Len(s) - 1)

\* Vec::remove(index) with a 0-based index: the later elements shift left.
Remove(s, index) ==
    [k \in 1..(Len(s) - 1) |-> IF k <= index THEN s[k] ELSE s[k + 1]]

\* Vec::get(index) with a 0-based index.
Get(s, index) == IF index + 1 \in 1..Len(s) THEN Some(s[index + 1]) ELSE {}

\* MapView::get
MapGet(m, key) == IF key \in DOMAIN m THEN Some(m[key]) ELSE {}

\* MapView::insert
MapInsert(m, key, value) ==
    [k \in (DOMAIN m) \cup {key} |-> IF k = key THEN value ELSE m[k]]

\* ---------------------------------------------------------------- DraftRoom

\* Mutant of Load: round starts at the default of its type.
Load_RoundZero ==
    [ players      |-> <<>>,
      max_players  |-> 0,
      current_turn |-> 0,
      round        |-> 0,
      max_rounds   |-> 3,
      pool         |-> <<>>,
      picks        |-> <<>>,
      status       |-> "Waiting",
      creator      |-> {} ]

\* DraftRoom::load: the instance before instantiation.
Load ==
    [ players      |-> <<>>,
      max_players  |-> 0,
      current_turn |-> 0,
      round        |-> 1,
      max_rounds   |-> 3,
      pool         |-> <<>>,
      picks        |-> <<>>,
      status       |-> "Waiting",
      creator      |-> {} ]

\* DraftRoom::instantiate
Instantiate(r, creator, parameters) ==
    [r EXCEPT !.creator = Some(creator), !.max_players = parameters]

\* LiveDraftArena::instantiate on a DraftRoom: a None creator skips the
\* room's instantiate.
ArenaInstantiate(r, creator, parameters) ==
    IF creator = {} THEN r ELSE Instantiate(r, Unwrap(creator), parameters)

\* Mutant of get_current_player: every round runs forward.
get_current_player_forward(r) ==
    IF r.players = <<>> THEN {}
    ELSE Get(r.players, r.current_turn % U8(Len(r.players)))

\* Mutant of get_current_player: every round runs backward.
get_current_player_backward(r) ==
    IF r.players = <<>> THEN {}
    ELSE LET player_count == U8(Len(r.players))
         IN  Get(r.players, (player_count - 1) - (r.current_turn % player_count))

\* Mutant of get_current_player: an empty roster gives the default identity.
get_current_player_default(r) ==
    IF r.players = <<>> THEN Some(1)
    ELSE LET player_count == U8(Len(r.players))
         IN  IF r.round % 2 = 1
             THEN Get(r.players, r.current_turn % player_count)
             ELSE Get(r.players, (player_count - 1) - (r.current_turn % player_count))

\* DraftRoom::get_current_player
get_current_player(r) ==
    IF r.players = <<>> THEN {}
    ELSE LET player_count == U8(Len(r.players))
             player_index ==
                 IF r.round % 2 = 1
                 THEN r.current_turn % player_count
                 ELSE U8((player_count - 1) - (r.current_turn % player_count))
         IN  Get(r.players, player_index)

\* Mutant of advance_turn: the draft completes when round reaches max_rounds
\* (>= in place of >).
advance_turn_early_finish(r) ==
    LET player_count == U8(Len(r.players))
        turn1 == U8(r.current_turn + 1)
    IN  IF turn1 >= player_count
        THEN LET round1 == U8(r.round + 1)
             IN  [r EXCEPT !.current_turn = 0,
                           !.round = round1,
                           !.status = IF round1 >= r.max_rounds
                                      THEN "Finished" ELSE @]
        ELSE [r EXCEPT !.current_turn = turn1]

\* Mutant of advance_turn: current_turn is not reset at the end of a round.
advance_turn_no_reset(r) ==
    LET player_count == U8(Len(r.players))
        turn1 == U8(r.current_turn + 1)
    IN  IF turn1 >= player_count
        THEN LET round1 == U8(r.round + 1)
             IN  [r EXCEPT !.current_turn = turn1,
                           !.round = round1,
                           !.status = IF round1 > r.max_rounds
                                      THEN "Finished" ELSE @]
        ELSE [r EXCEPT !.current_turn = turn1]

\* Mutant of advance_turn: the draft is never marked complete.
advance_turn_never_finished(r) ==
    LET player_count == U8(Len(r.players))
        turn1 == U8(r.current_turn + 1)
    IN  IF turn1 >= player_count
        THEN [r EXCEPT !.current_turn = 0,
                       !.round = U8(r.round + 1)]
        ELSE [r EXCEPT !.current_turn = turn1]

\* Mutant of advance_turn: the round ends one pick late (> in place of >=).
advance_turn_late_reset(r) ==
    LET player_count == U8(Len(r.players))
        turn1 == U8(r.current_turn + 1)
    IN  IF turn1 > player_count
        THEN LET round1 == U8(r.round + 1)
             IN  [r EXCEPT !.current_turn = 0,
                           !.round = round1,
                           !.status = IF round1 > r.max_rounds
                                      THEN "Finished" ELSE @]
        ELSE [r EXCEPT !.current_turn = turn1]

\* Mutant of advance_turn: a pick counts for two turns.
advance_turn_two_steps(r) ==
    LET player_count == U8(Len(r.players))
        turn1 == U8(r.current_turn + 2)
    IN  IF turn1 >= player_count
        THEN LET round1 == U8(r.round + 1)
             IN  [r EXCEPT !.current_turn = 0,
                           !.round = round1,
                           !.status = IF round1 > r.max_rounds
                                      THEN "Finished" ELSE @]
        ELSE [r EXCEPT !.current_turn = turn1]

\* DraftRoom::advance_turn
advance_turn(r) ==
    LET player_count == U8(Len(r.players))
        turn1 == U8(r.current_turn + 1)
    IN  IF turn1 >= player_count
        THEN LET round1 == U8(r.round + 1)
             IN  [r EXCEPT !.current_turn = 0,
                           !.round = round1,
                           !.status = IF round1 > r.max_rounds
                                      THEN "Finished" ELSE @]
        ELSE [r EXCEPT !.current_turn = turn1]

\* The outcome of a handler: the instance and the error ("Ok" for none).
Outcome(r, e) == [room |-> r, err |-> e]

\* Mutant of JoinRoomOp: the caller is pushed before the duplicate check.
JoinRoomOp_PushFirst(r, signer) ==
    IF signer = {} THEN Outcome(r, "AuthenticationRequired")
    ELSE IF r.status # "Waiting" THEN Outcome(r, "NotWaiting")
    ELSE IF Len(r.players) >= r.max_players THEN Outcome(r, "RoomFull")
    ELSE LET r1 == [r EXCEPT !.players = Append(@, Unwrap(signer))]
             r2 == [r1 EXCEPT !.picks = MapInsert(@, Unwrap(signer), <<>>)]
         IN  IF Contains(r.players, Unwrap(signer))
             THEN Outcome(r1, "AlreadyJoined")
             ELSE Outcome(r2, "Ok")

\* Mutant of JoinRoomOp: the capacity check comes before the status check.
JoinRoomOp_FullFirst(r, signer) ==
    IF signer = {} THEN Outcome(r, "AuthenticationRequired")
    ELSE IF Len(r.players) >= r.max_players THEN Outcome(r, "RoomFull")
    ELSE IF r.status # "Waiting" THEN Outcome(r, "NotWaiting")
    ELSE IF Contains(r.players, Unwrap(signer)) THEN Outcome(r, "AlreadyJoined")
    ELSE LET r1 == [r EXCEPT !.players = Append(@, Unwrap(signer))]
             r2 == [r1 EXCEPT !.picks = MapInsert(@, Unwrap(signer), <<>>)]
         IN  Outcome(r2, "Ok")

\* Mutant of JoinRoomOp: the duplicate check is missing.
JoinRoomOp_NoDupCheck(r, signer) ==
    IF signer = {} THEN Outcome(r, "AuthenticationRequired")
    ELSE IF r.status # "Waiting" THEN Outcome(r, "NotWaiting")
    ELSE IF Len(r.players) >= r.max_players THEN Outcome(r, "RoomFull")
    ELSE LET r1 == [r EXCEPT !.players = Append(@, Unwrap(signer))]
             r2 == [r1 EXCEPT !.picks = MapInsert(@, Unwrap(signer), <<>>)]
         IN  Outcome(r2, "Ok")

\* Mutant of JoinRoomOp: the join that fills the room starts the draft.
JoinRoomOp_AutoStart(r, signer) ==
    IF signer = {} THEN Outcome(r, "AuthenticationRequired")
    ELSE IF r.status # "Waiting" THEN Outcome(r, "NotWaiting")
    ELSE IF Len(r.players) >= r.max_players THEN Outcome(r, "RoomFull")
    ELSE IF Contains(r.players, Unwrap(signer)) THEN Outcome(r, "AlreadyJoined")
    ELSE LET r1 == [r EXCEPT !.players = Append(@, Unwrap(signer))]
             r2 == [r1 EXCEPT !.picks = MapInsert(@, Unwrap(signer), <<>>)]
         IN  IF Len(r2.players) >= r2.max_players
             THEN Outcome([r2 EXCEPT !.pool = initialize_pool,
                                     !.status = "Drafting"], "Ok")
             ELSE Outcome(r2, "Ok")

\* Mutant of JoinRoomOp: no pick list is created for the caller.
JoinRoomOp_NoPicks(r, signer) ==
    IF signer = {} THEN Outcome(r, "AuthenticationRequired")
    ELSE IF r.status # "Waiting" THEN Outcome(r, "NotWaiting")
    ELSE IF Len(r.players) >= r.max_players THEN Outcome(r, "RoomFull")
    ELSE IF Contains(r.players, Unwrap(signer)) THEN Outcome(r, "AlreadyJoined")
    ELSE Outcome([r EXCEPT !.players = Append(@, Unwrap(signer))], "Ok")

\* Mutant of JoinRoomOp: the status check is missing.
JoinRoomOp_NoStatusCheck(r, signer) ==
    IF signer = {} THEN Outcome(r, "AuthenticationRequired")
    ELSE IF Len(r.players) >= r.max_players THEN Outcome(r, "RoomFull")
    ELSE IF Contains(r.players, Unwrap(signer)) THEN Outcome(r, "AlreadyJoined")
    ELSE LET r1 == [r EXCEPT !.players = Append(@, Unwrap(signer))]
             r2 == [r1 EXCEPT !.picks = MapInsert(@, Unwrap(signer), <<>>)]
         IN  Outcome(r2, "Ok")

\* DraftRoomOperation::JoinRoom
JoinRoomOp(r, signer) ==
    IF signer = {} THEN Outcome(r, "AuthenticationRequired")
    ELSE IF r.status # "Waiting" THEN Outcome(r, "NotWaiting")
    ELSE IF Len(r.players) >= r.max_players THEN Outcome(r, "RoomFull")
    ELSE IF Contains(r.players, Unwrap(signer)) THEN Outcome(r, "AlreadyJoined")
    ELSE LET r1 == [r EXCEPT !.players = Append(@, Unwrap(signer))]
             r2 == [r1 EXCEPT !.picks = MapInsert(@, Unwrap(signer), <<>>)]
         IN  Outcome(r2, "Ok")

\* Mutant of StartDraftOp: the status check is missing.
StartDraftOp_NoStatusCheck(r, signer) ==
    IF signer = {} THEN Outcome(r, "AuthenticationRequired")
    ELSE IF r.creator # signer THEN Outcome(r, "NotCreator")
    ELSE Outcome([r EXCEPT !.pool = initialize_pool,
                           !.status = "Drafting",
                           !.current_turn = 0,
                           !.round = 1], "Ok")

\* Mutant of StartDraftOp: the creator check is missing.
StartDraftOp_NoCreatorCheck(r, signer) ==
    IF signer = {} THEN Outcome(r, "AuthenticationRequired")
    ELSE IF r.status # "Waiting" THEN Outcome(r, "NotWaiting")
    ELSE Outcome([r EXCEPT !.pool = initialize_pool,
                           !.status = "Drafting",
                           !.current_turn = 0,
                           !.round = 1], "Ok")

\* Mutant of StartDraftOp: the pool is not populated.
StartDraftOp_KeepsPool(r, signer) ==
    IF signer = {} THEN Outcome(r, "AuthenticationRequired")
    ELSE IF r.creator # signer THEN Outcome(r, "NotCreator")
    ELSE IF r.status # "Waiting" THEN Outcome(r, "NotWaiting")
    ELSE Outcome([r EXCEPT !.status = "Drafting",
                           !.current_turn = 0,
                           !.round = 1], "Ok")

\* DraftRoomOperation::StartDraft
StartDraftOp(r, signer) ==
    IF signer = {} THEN Outcome(r, "AuthenticationRequired")
    ELSE IF r.creator # signer THEN Outcome(r, "NotCreator")
    ELSE IF r.status # "Waiting" THEN Outcome(r, "NotWaiting")
    ELSE Outcome([r EXCEPT !.pool = initialize_pool,
                           !.status = "Drafting",
                           !.current_turn = 0,
                           !.round = 1], "Ok")

\* Mutant of PickItemOp: the status check is missing.
PickItemOp_NoStatusCheck(r, signer, item_id) ==
    IF signer = {} THEN Outcome(r, "AuthenticationRequired")
    ELSE IF get_current_player(r) = {} THEN Outcome(r, "NotYourTurn")
    ELSE IF get_current_player(r) # signer THEN Outcome(r, "NotYourTurn")
    ELSE LET item_index == Position(r.pool, item_id)
         IN  IF item_index = {} THEN Outcome(r, "ItemNotFound")
             ELSE LET picked_item == r.pool[Unwrap(item_index) + 1]
                      r1 == [r EXCEPT !.pool = Remove(@, Unwrap(item_index))]
                      got == MapGet(r1.picks, Unwrap(signer))
                      player_picks == IF got = {} THEN <<>> ELSE Unwrap(got)
                      r2 == [r1 EXCEPT !.picks =
                                MapInsert(@, Unwrap(signer),
                                          Append(player_picks, picked_item))]
                  IN  Outcome(advance_turn(r2), "Ok")

\* Mutant of PickItemOp: the caller is not compared with the current player.
PickItemOp_NoTurnCheck(r, signer, item_id) ==
    IF signer = {} THEN Outcome(r, "AuthenticationRequired")
    ELSE IF r.status # "Drafting" THEN Outcome(r, "NotDrafting")
    ELSE IF get_current_player(r) = {} THEN Outcome(r, "NotYourTurn")
    ELSE LET item_index == Position(r.pool, item_id)
         IN  IF item_index = {} THEN Outcome(r, "ItemNotFound")
             ELSE LET picked_item == r.pool[Unwrap(item_index) + 1]
                      r1 == [r EXCEPT !.pool = Remove(@, Unwrap(item_index))]
                      got == MapGet(r1.picks, Unwrap(signer))
                      player_picks == IF got = {} THEN <<>> ELSE Unwrap(got)
                      r2 == [r1 EXCEPT !.picks =
                                MapInsert(@, Unwrap(signer),
                                          Append(player_picks, picked_item))]
                  IN  Outcome(advance_turn(r2), "Ok")

\* Mutant of PickItemOp: the status is checked before the signer.
PickItemOp_StatusFirst(r, signer, item_id) ==
    IF r.status # "Drafting" THEN Outcome(r, "NotDrafting")
    ELSE IF signer = {} THEN Outcome(r, "AuthenticationRequired")
    ELSE IF get_current_player(r) = {} THEN Outcome(r, "NotYourTurn")
    ELSE IF get_current_player(r) # signer THEN Outcome(r, "NotYourTurn")
    ELSE LET item_index == Position(r.pool, item_id)
         IN  IF item_index = {} THEN Outcome(r, "ItemNotFound")
             ELSE LET picked_item == r.pool[Unwrap(item_index) + 1]
                      r1 == [r EXCEPT !.pool = Remove(@, Unwrap(item_index))]
                      got == MapGet(r1.picks, Unwrap(signer))
                      player_picks == IF got = {} THEN <<>> ELSE Unwrap(got)
                      r2 == [r1 EXCEPT !.picks =
                                MapInsert(@, Unwrap(signer),
                                          Append(player_picks, picked_item))]
                  IN  Outcome(advance_turn(r2), "Ok")

\* Mutant of PickItemOp: the picked item is put in front of the caller's list.
PickItemOp_Prepend(r, signer, item_id) ==
    IF signer = {} THEN Outcome(r, "AuthenticationRequired")
    ELSE IF r.status # "Drafting" THEN Outcome(r, "NotDrafting")
    ELSE IF get_current_player(r) = {} THEN Outcome(r, "NotYourTurn")
    ELSE IF get_current_player(r) # signer THEN Outcome(r, "NotYourTurn")
    ELSE LET item_index == Position(r.pool, item_id)
         IN  IF item_index = {} THEN Outcome(r, "ItemNotFound")
             ELSE LET picked_item == r.pool[Unwrap(item_index) + 1]
                      r1 == [r EXCEPT !.pool = Remove(@, Unwrap(item_index))]
                      got == MapGet(r1.picks, Unwrap(signer))
                      player_picks == IF got = {} THEN <<>> ELSE Unwrap(got)
                      r2 == [r1 EXCEPT !.picks =
                                MapInsert(@, Unwrap(signer),
                                          <<picked_item>> \o player_picks)]
                  IN  Outcome(advance_turn(r2), "Ok")

\* DraftRoomOperation::PickItem
PickItemOp(r, signer, item_id) ==
    IF signer = {} THEN Outcome(r, "AuthenticationRequired")
    ELSE IF r.status # "Drafting" THEN Outcome(r, "NotDrafting")
    ELSE IF get_current_player(r) = {} THEN Outcome(r, "NotYourTurn")
    ELSE IF get_current_player(r) # signer THEN Outcome(r, "NotYourTurn")
    ELSE LET item_index == Position(r.pool, item_id)
         IN  IF item_index = {} THEN Outcome(r, "ItemNotFound")
             ELSE LET picked_item == r.pool[Unwrap(item_index) + 1]
                      r1 == [r EXCEPT !.pool = Remove(@, Unwrap(item_index))]
                      got == MapGet(r1.picks, Unwrap(signer))
                      player_picks == IF got = {} THEN <<>> ELSE Unwrap(got)
                      r2 == [r1 EXCEPT !.picks =
                                MapInsert(@, Unwrap(signer),
                                          Append(player_picks, picked_item))]
                  IN  Outcome(advance_turn(r2), "Ok")

\* Mutant of FinalizeDraftOp: the check accepts every started draft.
FinalizeDraftOp_Started(r) ==
    IF r.status = "Waiting" THEN Outcome(r, "DraftNotFinished")
    ELSE Outcome(r, "Ok")

\* DraftRoomOperation::FinalizeDraft
FinalizeDraftOp(r) ==
    IF r.status # "Finished" THEN Outcome(r, "DraftNotFinished")
    ELSE Outcome(r, "Ok")

\* -------------------------------------------------------------------- Lobby

\* A room name is the sequence of its characters.
Whitespace == {" ", "\t", "\n"}

RECURSIVE TrimStart(_)
TrimStart(s) ==
    IF s # <<>> /\ Head(s) \in Whitespace THEN TrimStart(Tail(s)) ELSE s

RECURSIVE TrimEnd(_)
TrimEnd(s) ==
    IF s # <<>> /\ s[Len(s)] \in Whitespace
    THEN TrimEnd(SubSeq(s, 1, Len(s) - 1)) ELSE s

\* str::trim
Trim(s) == TrimEnd(TrimStart(s))

\* Mutant of FreshChainId: open_chain hands out the first chain id again.
FreshChainId_First(chains) == 1

\* ContractRuntime::open_chain: a chain id no chain has yet.
FreshChainId(chains) == Cardinality(DOMAIN chains) + 1

\* The outcome of a Lobby handler.
LobbyOutcome(rs, chains, e) == [rooms |-> rs, opened |-> chains, err |-> e]

\* Mutant of CreateRoomOp: the name is not trimmed before the emptiness check.
CreateRoomOp_NoTrim(rs, chains, signer, room_name, max_players) ==
    IF room_name = <<>> THEN LobbyOutcome(rs, chains, "EmptyRoomName")
    ELSE IF max_players < MinPlayers \/ max_players > MaxPlayers
         THEN LobbyOutcome(rs, chains, "InvalidMaxPlayers")
    ELSE IF signer = {} THEN LobbyOutcome(rs, chains, "AuthenticationRequired")
    ELSE LET chain_id == FreshChainId(chains)
             chains1 == MapInsert(chains, chain_id,
                                  [kind |-> "DraftRoom", max_players |-> max_players])
             metadata == [room_name   |-> room_name,
                          max_players |-> max_players,
                          status      |-> "Waiting"]
         IN  LobbyOutcome(MapInsert(rs, chain_id, metadata), chains1, "Ok")

\* Mutant of CreateRoomOp: the metadata is stored with the largest capacity.
CreateRoomOp_StoresMaxPlayers(rs, chains, signer, room_name, max_players) ==
    IF Trim(room_name) = <<>> THEN LobbyOutcome(rs, chains, "EmptyRoomName")
    ELSE IF max_players < MinPlayers \/ max_players > MaxPlayers
         THEN LobbyOutcome(rs, chains, "InvalidMaxPlayers")
    ELSE IF signer = {} THEN LobbyOutcome(rs, chains, "AuthenticationRequired")
    ELSE LET chain_id == FreshChainId(chains)
             chains1 == MapInsert(chains, chain_id,
                                  [kind |-> "DraftRoom", max_players |-> max_players])
             metadata == [room_name   |-> room_name,
                          max_players |-> MaxPlayers,
                          status      |-> "Waiting"]
         IN  LobbyOutcome(MapInsert(rs, chain_id, metadata), chains1, "Ok")

\* Mutant of CreateRoomOp: the signer is required before the validation.
CreateRoomOp_AuthFirst(rs, chains, signer, room_name, max_players) ==
    IF signer = {} THEN LobbyOutcome(rs, chains, "AuthenticationRequired")
    ELSE IF Trim(room_name) = <<>> THEN LobbyOutcome(rs, chains, "EmptyRoomName")
    ELSE IF max_players < MinPlayers \/ max_players > MaxPlayers
         THEN LobbyOutcome(rs, chains, "InvalidMaxPlayers")
    ELSE LET chain_id == FreshChainId(chains)
             chains1 == MapInsert(chains, chain_id,
                                  [kind |-> "DraftRoom", max_players |-> max_players])
             metadata == [room_name   |-> room_name,
                          max_players |-> max_players,
                          status      |-> "Waiting"]
         IN  LobbyOutcome(MapInsert(rs, chain_id, metadata), chains1, "Ok")

\* LobbyOperation::CreateRoom
CreateRoomOp(rs, chains, signer, room_name, max_players) ==
    IF Trim(room_name) = <<>> THEN LobbyOutcome(rs, chains, "EmptyRoomName")
    ELSE IF max_players < MinPlayers \/ max_players > MaxPlayers
         THEN LobbyOutcome(rs, chains, "InvalidMaxPlayers")
    ELSE IF signer = {} THEN LobbyOutcome(rs, chains, "AuthenticationRequired")
    ELSE LET chain_id == FreshChainId(chains)
             chains1 == MapInsert(chains, chain_id,
                                  [kind |-> "DraftRoom", max_players |-> max_players])
             metadata == [room_name   |-> room_name,
                          max_players |-> max_players,
                          status      |-> "Waiting"]
         IN  LobbyOutcome(MapInsert(rs, chain_id, metadata), chains1, "Ok")

\* ------------------------------------------------------------------ inputs

\* The item ids clients request: the id at the head of the pool, id 7 (in
\* the middle of the pool until it is picked, already picked afterwards) and
\* the ids just outside the catalog, 0 and 16.
ItemIdInputs ==
    {i \in 0..(Len(initialize_pool) + 1) :
        \/ i \notin CatalogIds
        \/ i = 7
        \/ room.pool # <<>> /\ i = Head(room.pool).id}

\* What the last operation was and how it ended.
Result(op, signer, item_id, err) ==
    [op |-> op, signer |-> signer, item_id |-> item_id,
     room_name |-> {}, max_players |-> {}, err |-> err]

LobbyResult(op, signer, room_name, max_players, err) ==
    [op |-> op, signer |-> signer, item_id |-> {},
     room_name |-> Some(room_name), max_players |-> Some(max_players), err |-> err]

\* ----------------------------------------------------------------- actions

Init ==
    /\ \E creator \in {{}, Some(1)}, parameters \in {MinPlayers, MaxPlayers} :
          room = ArenaInstantiate(Load, creator, parameters)
    /\ rooms = <<>>
    /\ opened = <<>>
    /\ last = Result("Instantiate", {}, {}, "Ok")
    /\ log = <<>>
    /\ instances = <<>>

\* One operation submitted with the signer the runtime attaches to it.
JoinRoomBy(signer) ==
    LET out == JoinRoomOp(room, signer)
    IN  /\ room' = out.room
        /\ last' = Result("JoinRoom", signer, {}, out.err)
        /\ UNCHANGED <<rooms, opened, log, instances>>

StartDraftBy(signer) ==
    LET out == StartDraftOp(room, signer)
    IN  /\ room' = out.room
        /\ last' = Result("StartDraft", signer, {}, out.err)
        /\ log' = IF out.err = "Ok" THEN <<>> ELSE log
        /\ UNCHANGED <<rooms, opened, instances>>

PickItemBy(signer, item_id) ==
    LET out == PickItemOp(room, signer, item_id)
    IN  /\ room' = out.room
        /\ last' = Result("PickItem", signer, Some(item_id), out.err)
        /\ log' = IF out.err = "Ok"
                  THEN Append(log, [round   |-> room.round,
                                    signer  |-> Unwrap(signer),
                                    item_id |-> item_id])
                  ELSE log
        /\ UNCHANGED <<rooms, opened, instances>>

FinalizeDraftBy(signer) ==
    LET out == FinalizeDraftOp(room)
    IN  /\ room' = out.room
        /\ last' = Result("FinalizeDraft", signer, {}, out.err)
        /\ UNCHANGED <<rooms, opened, log, instances>>

\* Spec: MaxOwners identities, joining in every order.
JoinRoom == \E signer \in Signers : JoinRoomBy(signer)

StartDraft == \E signer \in Signers : StartDraftBy(signer)

PickItem == \E signer \in Signers, item_id \in ItemIdInputs : PickItemBy(signer, item_id)

FinalizeDraft == \E signer \in Signers : FinalizeDraftBy(signer)

Next == JoinRoom \/ StartDraft \/ PickItem \/ FinalizeDraft

Spec == Init /\ [][Next]_vars

\* SpecRoster: as many identities as the largest capacity, so that rosters of
\* every size 0..MaxPlayers are drafted.  The identities are interchangeable
\* for a room, so they join in one order, the largest first: players[k] is
\* never the identity k.
RosterOwners == 1..MaxPlayers

RosterSigners == {{}} \cup {{o} : o \in RosterOwners}

JoinsInOrder(signer) ==
    IF signer = {} THEN TRUE
    ELSE IF Contains(room.players, Unwrap(signer)) THEN TRUE
    ELSE \A o \in RosterOwners : o > Unwrap(signer) => Contains(room.players, o)

JoinRoomRoster == \E signer \in RosterSigners : JoinsInOrder(signer) /\ JoinRoomBy(signer)

StartDraftRoster == \E signer \in RosterSigners : StartDraftBy(signer)

PickItemRoster ==
    \E signer \in RosterSigners, item_id \in ItemIdInputs : PickItemBy(signer, item_id)

FinalizeDraftRoster == \E signer \in RosterSigners : FinalizeDraftBy(signer)

NextRoster == JoinRoomRoster \/ StartDraftRoster \/ PickItemRoster \/ FinalizeDraftRoster

SpecRoster == Init /\ [][NextRoster]_vars

\* SpecArena: the Lobby next to a DraftRoom instance.  The room is driven by
\* as many identities as the smallest capacity, joining in every order.
ArenaSigners == {{}} \cup {{o} : o \in 1..MinPlayers}

\* The names and capacities clients request of the Lobby: empty, blank and
\* padded names, and the capacities on both sides of each end of the range.
RoomNameInputs == {<<>>, <<" ">>, <<" ", "a", " ">>}

MaxPlayersInputs == {MinPlayers - 1, MinPlayers, MaxPlayers, U8(MaxPlayers + 1)}

CreateRoom ==
    \E signer \in ArenaSigners, room_name \in RoomNameInputs,
       max_players \in MaxPlayersInputs :
        LET out == CreateRoomOp(rooms, opened, signer, room_name, max_players)
        IN  /\ out.err = "Ok" => Cardinality(DOMAIN opened) < MaxRooms
            /\ rooms' = out.rooms
            /\ opened' = out.opened
            /\ last' = LobbyResult("CreateRoom", signer, room_name, max_players, out.err)
            /\ UNCHANGED <<room, log, instances>>

JoinRoomArena == \E signer \in ArenaSigners : JoinRoomBy(signer)

StartDraftArena == \E signer \in ArenaSigners : StartDraftBy(signer)

PickItemArena ==
    \E signer \in ArenaSigners, item_id \in ItemIdInputs : PickItemBy(signer, item_id)

FinalizeDraftArena == \E signer \in ArenaSigners : FinalizeDraftBy(signer)

NextArena ==
    \/ CreateRoom
    \/ JoinRoomArena
    \/ StartDraftArena
    \/ PickItemArena
    \/ FinalizeDraftArena

SpecArena == Init /\ [][NextArena]_vars

\* ------------------------------------------------------------------ claims

\* SpecChains: the Lobby and the DraftRoom chains it opens. instances holds
\* the DraftRoom of every opened chain, each in the storage of its own chain.
MaxChains == 2

ChainSigners == {{o} : o \in 1..MinPlayers}

\* The identities that ask to join a chain's room: the rooms of the opened
\* chains are driven through every status with a roster of at most one.
ChainJoiners == {Some(1)}

\* The creator LiveDraftArena::instantiate is given on a new chain. The
\* Lobby passes none on to open_chain, so it is whatever the chain is
\* instantiated with: none, or an identity.
ChainCreators == {{}, Some(1)}

ChainCapacities == {MinPlayers, MinPlayers + 1}

\* The names asked of the Lobby: a blank one and a padded one.
ChainNames == {<<" ">>, <<" ", "a", " ">>}

InitChains ==
    /\ room = Load
    /\ rooms = <<>>
    /\ opened = <<>>
    /\ last = Result("Instantiate", {}, {}, "Ok")
    /\ log = <<>>
    /\ instances = <<>>

\* What the last operation on the chain chain_id was and how it ended.
ChainResult(chain_id, op, signer, item_id, err) ==
    Result(op, signer, item_id, err) @@ [chain_id |-> chain_id]

\* Mutant of ExecuteAt: every chain shares one storage.
ExecuteAt_SharedStorage(insts, chain_id, out) ==
    [id \in DOMAIN insts |-> out.room]

\* LiveDraftArena::execute_operation on the chain chain_id: the handler
\* works on the instance loaded from that chain's storage and sends no
\* message.
ExecuteAt(insts, chain_id, out) ==
    [insts EXCEPT ![chain_id] = out.room]

\* CreateRoom on the Lobby chain; the chain it opens gets a DraftRoom,
\* loaded and instantiated with the chain's parameters.
CreateRoomChain ==
    \E signer \in ChainSigners, room_name \in ChainNames,
       max_players \in ChainCapacities, creator \in ChainCreators :
        LET out == CreateRoomOp(rooms, opened, signer, room_name, max_players)
            chain_id == FreshChainId(opened)
        IN  /\ out.err = "Ok" => Cardinality(DOMAIN opened) < MaxChains
            /\ rooms' = out.rooms
            /\ opened' = out.opened
            /\ instances' =
                 IF out.err = "Ok"
                 THEN MapInsert(instances, chain_id,
                                ArenaInstantiate(Load, creator, max_players))
                 ELSE instances
            /\ last' = LobbyResult("CreateRoom", signer, room_name, max_players, out.err)
            /\ UNCHANGED <<room, log>>

JoinRoomAt(chain_id, signer) ==
    LET out == JoinRoomOp(instances[chain_id], signer)
    IN  /\ instances' = ExecuteAt(instances, chain_id, out)
        /\ last' = ChainResult(chain_id, "JoinRoom", signer, {}, out.err)
        /\ UNCHANGED <<room, rooms, opened, log>>

StartDraftAt(chain_id, signer) ==
    LET out == StartDraftOp(instances[chain_id], signer)
    IN  /\ instances' = ExecuteAt(instances, chain_id, out)
        /\ last' = ChainResult(chain_id, "StartDraft", signer, {}, out.err)
        /\ UNCHANGED <<room, rooms, opened, log>>

\* The item id clients of a chain request: the id at the head of its pool
\* (id 1 while the pool is empty).
ChainItemId(r) == IF r.pool # <<>> THEN Head(r.pool).id ELSE 1

PickItemAt(chain_id, signer) ==
    LET item_id == ChainItemId(instances[chain_id])
        out == PickItemOp(instances[chain_id], signer, item_id)
    IN  /\ instances' = ExecuteAt(instances, chain_id, out)
        /\ last' = ChainResult(chain_id, "PickItem", signer, Some(item_id), out.err)
        /\ UNCHANGED <<room, rooms, opened, log>>

FinalizeDraftAt(chain_id, signer) ==
    LET out == FinalizeDraftOp(instances[chain_id])
    IN  /\ instances' = ExecuteAt(instances, chain_id, out)
        /\ last' = ChainResult(chain_id, "FinalizeDraft", signer, {}, out.err)
        /\ UNCHANGED <<room, rooms, opened, log>>

JoinRoomChain ==
    \E chain_id \in DOMAIN instances, signer \in ChainJoiners :
        JoinRoomAt(chain_id, signer)

StartDraftChain ==
    \E chain_id \in DOMAIN instances, signer \in ChainSigners :
        StartDraftAt(chain_id, signer)

PickItemChain ==
    \E chain_id \in DOMAIN instances, signer \in ChainSigners :
        PickItemAt(chain_id, signer)

FinalizeDraftChain ==
    \E chain_id \in DOMAIN instances, signer \in ChainJoiners :
        FinalizeDraftAt(chain_id, signer)

NextChains ==
    \/ CreateRoomChain
    \/ JoinRoomChain
    \/ StartDraftChain
    \/ PickItemChain
    \/ FinalizeDraftChain

SpecChains == InitChains /\ [][NextChains]_vars


\* SpecGateway: the GraphQL service in front of one room and the Lobby.
\* Every request carries a player id; the mutations execute the operation
\* through the one client of the service.
MaxPlayerIds == 2

PlayerIds == 1..MaxPlayerIds

\* The owner the service's client signs with: the owner of its wallet,
\* the same for every request.
ClientOwner == 1

\* identity::player_id_to_owner: the Owner parsed from the SHA-256 digest of
\* the player id; taken to be free of collisions, and apart from the
\* wallet's owner.
player_id_to_owner(player_id) == ClientOwner + player_id

\* GraphQLContext::new
GraphQLContext(player_id) ==
    [player_id |-> player_id, player_owner |-> player_id_to_owner(player_id)]

\* ClientContext::execute_operation(chain_id, app_id, operation): the
\* signer the runtime attaches is the client's own; no owner is passed in.
ClientSigner == Some(ClientOwner)

\* What the last request was, who asked for it and how it ended.
GatewayResult(context, res) ==
    res @@ [player_id |-> context.player_id, player_owner |-> context.player_owner]

\* The item ids of pick_item requests (a u32 in the request): the head of
\* the pool, an id outside the catalog and an id that is 7 after the cast.
GatewayItemIds ==
    {0, U8Mod + 7} \cup (IF room.pool = <<>> THEN {} ELSE {Head(room.pool).id})

\* MutationRoot::create_room
create_room ==
    \E player_id \in PlayerIds, room_name \in RoomNameInputs,
       max_players \in MaxPlayersInputs :
        LET context == GraphQLContext(player_id)
            player_owner == context.player_owner
        IN  IF Trim(room_name) = <<>> \/ max_players < MinPlayers \/ max_players > MaxPlayers
            THEN /\ last' = GatewayResult(context,
                              LobbyResult("CreateRoom", {}, room_name, max_players,
                                          "NotExecuted"))
                 /\ UNCHANGED <<room, rooms, opened, log, instances>>
            ELSE LET out == CreateRoomOp(rooms, opened, ClientSigner, room_name, max_players)
                 IN  /\ out.err = "Ok" => Cardinality(DOMAIN opened) < MaxRooms
                     /\ rooms' = out.rooms
                     /\ opened' = out.opened
                     /\ last' = GatewayResult(context,
                                  LobbyResult("CreateRoom", ClientSigner, room_name,
                                              max_players, out.err))
                     /\ UNCHANGED <<room, log, instances>>

\* MutationRoot::join_room
join_room ==
    \E player_id \in PlayerIds :
        LET context == GraphQLContext(player_id)
            player_owner == context.player_owner
            out == JoinRoomOp(room, ClientSigner)
        IN  /\ room' = out.room
            /\ last' = GatewayResult(context, Result("JoinRoom", ClientSigner, {}, out.err))
            /\ UNCHANGED <<rooms, opened, log, instances>>

\* MutationRoot::start_draft
start_draft ==
    \E player_id \in PlayerIds :
        LET context == GraphQLContext(player_id)
            player_owner == context.player_owner
            out == StartDraftOp(room, ClientSigner)
        IN  /\ room' = out.room
            /\ last' = GatewayResult(context, Result("StartDraft", ClientSigner, {}, out.err))
            /\ log' = IF out.err = "Ok" THEN <<>> ELSE log
            /\ UNCHANGED <<rooms, opened, instances>>

\* MutationRoot::pick_item
pick_item ==
    \E player_id \in PlayerIds, input_item_id \in GatewayItemIds :
        LET context == GraphQLContext(player_id)
            player_owner == context.player_owner
            item_id == U8(input_item_id)
            out == PickItemOp(room, ClientSigner, item_id)
        IN  /\ room' = out.room
            /\ last' = GatewayResult(context,
                         Result("PickItem", ClientSigner, Some(item_id), out.err))
                       @@ [input_item_id |-> input_item_id]
            /\ log' = IF out.err = "Ok"
                      THEN Append(log, [round   |-> room.round,
                                        signer  |-> Unwrap(ClientSigner),
                                        item_id |-> item_id])
                      ELSE log
            /\ UNCHANGED <<rooms, opened, instances>>

\* MutationRoot::finalize_draft
finalize_draft ==
    \E player_id \in PlayerIds :
        LET context == GraphQLContext(player_id)
            player_owner == context.player_owner
            out == FinalizeDraftOp(room)
        IN  /\ room' = out.room
            /\ last' = GatewayResult(context,
                         Result("FinalizeDraft", ClientSigner, {}, out.err))
            /\ UNCHANGED <<rooms, opened, log, instances>>

NextGateway ==
    \/ create_room
    \/ join_room
    \/ start_draft
    \/ pick_item
    \/ finalize_draft

SpecGateway == Init /\ [][NextGateway]_vars


\* SpecReload: Spec with the runtime loading the contract again between two
\* operations.  load builds the instance from its initial values and the
\* picks view of the chain's storage.
Reload(r) == [Load EXCEPT !.picks = r.picks]

ReloadRoom ==
    /\ room' = Reload(room)
    /\ last' = Result("Reload", {}, {}, "Ok")
    /\ UNCHANGED <<rooms, opened, log, instances>>

NextReload == JoinRoom \/ StartDraft \/ PickItem \/ FinalizeDraft \/ ReloadRoom

SpecReload == Init /\ [][NextReload]_vars

\* SpecDispatch: SpecArena with operations of the other contract type.  The
\* last arm of the match in LiveDraftArena::execute_operation takes them:
\* nothing is executed and the call returns.
RoomOperationNames == {"JoinRoom", "StartDraft", "PickItem", "FinalizeDraft"}

\* The arm of the match that takes the operation op on a contract of type
\* kind.
MatchArm(kind, op) ==
    IF kind = "Lobby" /\ op = "CreateRoom" THEN "Lobby"
    ELSE IF kind = "DraftRoom" /\ op \in RoomOperationNames THEN "DraftRoom"
    ELSE "Invalid"

\* Operation::CreateRoom executed on a DraftRoom chain.
CreateRoomOnRoom ==
    \E signer \in ArenaSigners, room_name \in RoomNameInputs,
       max_players \in MaxPlayersInputs :
        /\ MatchArm("DraftRoom", "CreateRoom") = "Invalid"
        /\ last' = LobbyResult("CreateRoom", signer, room_name, max_players, "Ok")
                     @@ [target |-> "DraftRoom"]
        /\ UNCHANGED <<room, rooms, opened, log, instances>>

\* A DraftRoom operation executed on the Lobby chain.
RoomOperationOnLobby ==
    \E op \in RoomOperationNames, signer \in ArenaSigners :
        /\ MatchArm("Lobby", op) = "Invalid"
        /\ last' = Result(op, signer, IF op = "PickItem" THEN Some(7) ELSE {}, "Ok")
                     @@ [target |-> "Lobby"]
        /\ UNCHANGED <<room, rooms, opened, log, instances>>

NextDispatch ==
    \/ CreateRoom
    \/ JoinRoomArena
    \/ StartDraftArena
    \/ PickItemArena
    \/ FinalizeDraftArena
    \/ CreateRoomOnRoom
    \/ RoomOperationOnLobby

SpecDispatch == Init /\ [][NextDispatch]_vars

\* SpecChainsLive: SpecChains in which operations keep being executed.
SpecChainsLive == SpecChains /\ WF_vars(NextChains)

\* The step just taken was the operation op.
Did(op) == last'.op = op

\* The ids of the items of a sequence of items.
Ids(items) == {items[k].id : k \in 1..Len(items)}

RoundPicks(rd) == SelectSeq(log, LAMBDA e : e.round = rd)

C2_WitnessEvenRoundOver ==
    /\ Len(room.players) = 4
    /\ room.round = 3
    /\ Len(RoundPicks(2)) = 4

\* C3: an operation that fails leaves its instance as it was: the room's
\* fields for JoinRoom, StartDraft, PickItem and FinalizeDraft, the registry
\* and the opened chains for CreateRoom.
C3_FailureChangesNothing ==
    [][(last'.err # "Ok") =>
          /\ room' = room
          /\ rooms' = rooms
          /\ opened' = opened]_vars

\* C3 witness: a CreateRoom rejected by a Lobby that holds a room, next to a
\* room that is drafting.
C3_Witness ==
    /\ last.op = "CreateRoom" /\ last.err = "InvalidMaxPlayers"
    /\ rooms # <<>>
    /\ room.status = "Drafting"

\* Every place of every pick list: <<player, position>>.
PickSlots ==
    UNION {{<<p, k>> : k \in 1..Len(room.picks[p])} : p \in DOMAIN room.picks}

\* How many times the item id occurs in the pool and in the pick lists.
Occurrences(id) ==
    Cardinality({k \in 1..Len(room.pool) : room.pool[k].id = id})
  + Cardinality({s \in PickSlots : room.picks[s[1]][s[2]].id = id})

C5_PicksAtFinish ==
    room.status = "Finished" =>
        LET n == Len(room.players)
        IN  /\ n >= 1
            /\ Len(log) = n * room.max_rounds
            /\ \A k \in 1..n : Len(room.picks[room.players[k]]) = room.max_rounds

\* C5 witness: the largest roster the pool serves, n * max_rounds being the
\* size of the pool, finished by its last pick.
C5_Witness ==
    /\ room.status = "Finished"
    /\ Len(room.players) * room.max_rounds = Len(initialize_pool)
    /\ last.op = "PickItem" /\ last.err = "Ok"
    /\ room.pool = <<>>

ActivePlayer(r) ==
    LET n == Len(r.players)
    IN  IF n = 0 THEN {}
        ELSE IF r.round % 2 = 1
             THEN {r.players[(r.current_turn % n) + 1]}
             ELSE {r.players[((n - 1) - (r.current_turn % n)) + 1]}

\* C7 as stated, for a player who asks for an item that is in the pool: a
\* PickItem by a caller who is not the active player fails with NotYourTurn
\* and changes nothing, whatever the status of the room.
C7_Original ==
    [][(/\ Did("PickItem")
        /\ last'.signer # {}
        /\ last'.signer \subseteq Range(room.players)
        /\ last'.item_id \subseteq Ids(room.pool)
        /\ last'.signer # ActivePlayer(room)) =>
          (/\ last'.err = "NotYourTurn"
           /\ room' = room)]_vars

\* C7 amended: in a Drafting room, a PickItem by a caller who is not the
\* active player fails with NotYourTurn and changes nothing, whether or not
\* the requested id is in the pool.
C7_NotYourTurn ==
    [][(/\ Did("PickItem")
        /\ room.status = "Drafting"
        /\ last'.signer # {}
        /\ last'.signer # ActivePlayer(room)) =>
          (/\ last'.err = "NotYourTurn"
           /\ room' = room)]_vars

\* C7 witness: a caller out of turn was refused an item that is in the pool.
C7_Witness ==
    /\ room.status = "Drafting"
    /\ last.op = "PickItem" /\ last.err = "NotYourTurn"
    /\ last.item_id \subseteq Ids(room.pool)
    /\ last.signer \subseteq Range(room.players)

\* C8 as stated, for the players of a Drafting room: a PickItem whose
\* item_id matches no entry of the pool fails with ItemNotFound and leaves
\* pool, picks and current_turn unchanged, whichever player calls it.
C8_Original ==
    [][(/\ Did("PickItem")
        /\ room.status = "Drafting"
        /\ last'.signer # {}
        /\ last'.signer \subseteq Range(room.players)
        /\ last'.item_id \cap Ids(room.pool) = {}) =>
          (/\ last'.err = "ItemNotFound"
           /\ room'.pool = room.pool
           /\ room'.picks = room.picks
           /\ room'.current_turn = room.current_turn)]_vars

\* C8 amended: a PickItem whose item_id matches no entry of the pool always
\* fails and leaves the room unchanged; it fails with ItemNotFound when the
\* room is Drafting and the caller is the active player, and with the error
\* of the earlier check otherwise.
C8_ItemNotFound ==
    [][(Did("PickItem") /\ last'.item_id \cap Ids(room.pool) = {}) =>
          /\ room' = room
          /\ IF last'.signer = {} THEN last'.err = "AuthenticationRequired"
             ELSE IF room.status # "Drafting" THEN last'.err = "NotDrafting"
             ELSE IF last'.signer # ActivePlayer(room) THEN last'.err = "NotYourTurn"
             ELSE last'.err = "ItemNotFound"]_vars

\* C8 witness: the active player asked for an item that was picked before.
C8_Witness ==
    /\ last.op = "PickItem" /\ last.err = "ItemNotFound"
    /\ \E k \in 1..Len(log) : {log[k].item_id} = last.item_id

\* C9: a successful PickItem is made by the active player of a Drafting
\* room; it removes the requested item from the pool and nothing else,
\* appends it to the caller's pick list and changes no other list, and
\* advances the turn: current_turn + 1, or 0 with round + 1 when that is n;
\* status becomes Finished exactly when the new round exceeds max_rounds.
C9_PickEffect ==
    [][(Did("PickItem") /\ last'.err = "Ok") =>
          LET s == Unwrap(last'.signer)
              id == Unwrap(last'.item_id)
              n == Len(room.players)
          IN  /\ room.status = "Drafting"
              /\ last'.signer = ActivePlayer(room)
              /\ \E k \in 1..Len(room.pool) :
                    /\ room.pool[k].id = id
                    /\ room'.pool = SubSeq(room.pool, 1, k - 1)
                                    \o SubSeq(room.pool, k + 1, Len(room.pool))
                    /\ room'.picks[s] = Append(room.picks[s], room.pool[k])
              /\ DOMAIN room'.picks = DOMAIN room.picks
              /\ \A p \in DOMAIN room.picks \ {s} : room'.picks[p] = room.picks[p]
              /\ room'.players = room.players
              /\ room'.max_players = room.max_players
              /\ room'.max_rounds = room.max_rounds
              /\ room'.creator = room.creator
              /\ IF room.current_turn + 1 = n
                 THEN room'.current_turn = 0 /\ room'.round = room.round + 1
                 ELSE /\ room'.current_turn = room.current_turn + 1
                      /\ room'.round = room.round
              /\ room'.status = IF room'.round > room.max_rounds
                                THEN "Finished" ELSE "Drafting"]_vars

\* C9 witness: the pick of an item from the middle of the pool that ended
\* round 1.
C9_Witness ==
    /\ last.op = "PickItem" /\ last.err = "Ok" /\ last.item_id = {7}
    /\ room.round = 2 /\ room.current_turn = 0
    /\ Len(room.players) >= 2

\* C10: a JoinRoom on a Drafting or Finished room is rejected with
\* NotWaiting and changes nothing, with or without room left and whether or
\* not the caller is in players.
C10_JoinAfterStart ==
    [][(/\ Did("JoinRoom")
        /\ last'.signer # {}
        /\ room.status \in {"Drafting", "Finished"}) =>
          (/\ last'.err = "NotWaiting"
           /\ room' = room)]_vars

\* C10 witness: a newcomer was refused by a Drafting room that has room left.
C10_Witness ==
    /\ room.status = "Drafting"
    /\ last.op = "JoinRoom" /\ last.err = "NotWaiting"
    /\ Len(room.players) < room.max_players
    /\ last.signer \cap Range(room.players) = {}

\* C10 witness for a Finished room that is full, the caller being a player.
C10_WitnessFullFinished ==
    /\ room.status = "Finished"
    /\ last.op = "JoinRoom" /\ last.err = "NotWaiting"
    /\ Len(room.players) = room.max_players
    /\ last.signer \subseteq Range(room.players)

\* No identity occurs twice in the sequence.
NoDuplicates(s) == \A j, k \in 1..Len(s) : s[j] = s[k] => j = k

\* The step just taken was the operation op with a caller identity.
DidBy(op) == Did(op) /\ last'.signer # {}

\* C11 as stated, for a Waiting room: players has no duplicates and is no
\* longer than the capacity; a JoinRoom on a full room fails RoomFull and a
\* JoinRoom by a caller who is in players fails AlreadyJoined.
C11_Original ==
    [][/\ NoDuplicates(room'.players)
       /\ Len(room'.players) <= room'.max_players
       /\ (/\ DidBy("JoinRoom")
           /\ room.status = "Waiting"
           /\ Len(room.players) = room.max_players) => last'.err = "RoomFull"
       /\ (/\ DidBy("JoinRoom")
           /\ room.status = "Waiting"
           /\ last'.signer \subseteq Range(room.players)) =>
                last'.err = "AlreadyJoined"]_vars

\* C11 amended: players has no duplicates and is no longer than the
\* capacity; on a Waiting room a JoinRoom fails RoomFull when the room is
\* full, whoever calls, and fails AlreadyJoined when the room is not full
\* and the caller is in players.
C11_Roster ==
    [][/\ NoDuplicates(room.players) /\ NoDuplicates(room'.players)
       /\ Len(room.players) <= room.max_players
       /\ Len(room'.players) <= room'.max_players
       /\ (/\ DidBy("JoinRoom")
           /\ room.status = "Waiting"
           /\ Len(room.players) = room.max_players) =>
                (last'.err = "RoomFull" /\ room' = room)
       /\ (/\ DidBy("JoinRoom")
           /\ room.status = "Waiting"
           /\ Len(room.players) < room.max_players
           /\ last'.signer \subseteq Range(room.players)) =>
                (last'.err = "AlreadyJoined" /\ room' = room)]_vars

\* C11 witness: a player joined again a room that has room left.
C11_Witness ==
    /\ room.status = "Waiting"
    /\ last.op = "JoinRoom" /\ last.err = "AlreadyJoined"
    /\ Len(room.players) < room.max_players

\* C11 witness for a full room: a newcomer was refused.
C11_WitnessRoomFull ==
    /\ room.status = "Waiting"
    /\ last.op = "JoinRoom" /\ last.err = "RoomFull"
    /\ Len(room.players) = room.max_players
    /\ room.max_players >= MinPlayers
    /\ last.signer \cap Range(room.players) = {}

\* C12: a successful JoinRoom is made on a Waiting room by a caller who is
\* not in players; it appends the caller to players, gives the caller an
\* empty pick list, keeps the room Waiting and changes nothing else.
C12_JoinEffect ==
    [][(Did("JoinRoom") /\ last'.err = "Ok") =>
          LET s == Unwrap(last'.signer)
          IN  /\ last'.signer # {}
              /\ room.status = "Waiting"
              /\ room'.status = "Waiting"
              /\ room'.players = room.players \o <<s>>
              /\ DOMAIN room'.picks = (DOMAIN room.picks) \cup {s}
              /\ room'.picks[s] = <<>>
              /\ \A p \in (DOMAIN room.picks) \ {s} : room'.picks[p] = room.picks[p]
              /\ room'.pool = room.pool
              /\ room'.current_turn = room.current_turn
              /\ room'.round = room.round
              /\ room'.max_rounds = room.max_rounds
              /\ room'.max_players = room.max_players
              /\ room'.creator = room.creator]_vars

\* C12 witness: the join that filled a room, which is still Waiting.
C12_Witness ==
    /\ last.op = "JoinRoom" /\ last.err = "Ok"
    /\ room.status = "Waiting"
    /\ Len(room.players) = room.max_players
    /\ room.players[Len(room.players)] = Unwrap(last.signer)

\* C13: a StartDraft by a caller who is not the creator fails NotCreator
\* and changes nothing, and the status of a room leaves Waiting only in a
\* StartDraft whose caller is the creator of the room.
C13_OnlyCreatorStarts ==
    [][/\ (DidBy("StartDraft") /\ last'.signer # room.creator) =>
             (last'.err = "NotCreator" /\ room' = room)
       /\ (room.status = "Waiting" /\ room'.status # "Waiting") =>
             (/\ DidBy("StartDraft")
              /\ last'.err = "Ok"
              /\ last'.signer = room.creator)]_vars

\* C13 witness: a joined player who is not the creator was refused and the
\* room is still Waiting.
C13_Witness ==
    /\ last.op = "StartDraft" /\ last.err = "NotCreator"
    /\ room.status = "Waiting"
    /\ room.creator # {}
    /\ last.signer \subseteq Range(room.players)

\* C13 witness of the other half: the creator started the draft.
C13_WitnessStarted ==
    /\ last.op = "StartDraft" /\ last.err = "Ok"
    /\ room.status = "Drafting"
    /\ last.signer = room.creator

\* C14: a StartDraft with a caller identity on a room that is not Waiting
\* fails NotWaiting whoever calls, and a StartDraft succeeds only on a
\* Waiting room.
C14_NotWaitingFirst ==
    [][/\ (DidBy("StartDraft") /\ room.status # "Waiting") =>
             last'.err = "NotWaiting"
       /\ (Did("StartDraft") /\ last'.err = "Ok") =>
             room.status = "Waiting"]_vars

\* C15: a successful StartDraft sets pool to the 15 catalog items with the
\* ids 1..15 in order, status to Drafting, current_turn to 0 and round to 1,
\* and leaves players, picks, max_players, max_rounds and creator unchanged.
C15_StartEffect ==
    [][(Did("StartDraft") /\ last'.err = "Ok") =>
          (/\ room'.pool = initialize_pool
           /\ Len(room'.pool) = 15
           /\ \A k \in 1..15 : room'.pool[k].id = k
           /\ room'.status = "Drafting"
           /\ room'.current_turn = 0
           /\ room'.round = 1
           /\ room'.players = room.players
           /\ room'.picks = room.picks
           /\ room'.max_players = room.max_players
           /\ room'.max_rounds = room.max_rounds
           /\ room'.creator = room.creator)]_vars

\* C15 witness: a draft just started in a room with players.
C15_Witness ==
    /\ last.op = "StartDraft" /\ last.err = "Ok"
    /\ room.status = "Drafting"
    /\ Len(room.pool) = 15
    /\ Len(room.players) >= MinPlayers

\* C16: a room that is Drafting or Finished has at least 2 players.
C16_TwoPlayersToStart ==
    room.status \in {"Drafting", "Finished"} => Len(room.players) >= 2

C17_WitnessNotFinished ==
    /\ last.op = "FinalizeDraft" /\ last.err = "DraftNotFinished"
    /\ room.status = "Drafting"

C19_FinishedRound ==
    /\ (room.status = "Finished") <=> (room.round > room.max_rounds)
    /\ (room.status = "Drafting") => (room.round <= room.max_rounds)

\* C19 witness: the pick that ended the last round finished the draft.
C19_Witness ==
    /\ last.op = "PickItem" /\ last.err = "Ok"
    /\ room.status = "Finished"
    /\ room.round = room.max_rounds + 1

\* C19 witness during the draft: the last round is being played.
C19_WitnessLastRound ==
    /\ room.status = "Drafting"
    /\ room.round = room.max_rounds
    /\ room.current_turn > 0

AskedName == Unwrap(last'.room_name)

AskedCapacity == Unwrap(last'.max_players)

\* Every stored RoomMetadata has a name that is not blank and a capacity
\* in MinPlayers..MaxPlayers.
ValidMetadata(rs) ==
    \A id \in DOMAIN rs :
        /\ Trim(rs[id].room_name) # <<>>
        /\ rs[id].max_players \in MinPlayers..MaxPlayers

\* C21 as stated: a CreateRoom with a blank name fails with the name error
\* (EmptyRoomName in the code) and one with a capacity outside 2..8 fails
\* with the capacity error (InvalidMaxPlayers in the code), both without a
\* change of the Lobby; every stored metadata is valid.
C21_Original ==
    [][/\ ValidMetadata(rooms')
       /\ (Did("CreateRoom") /\ Trim(AskedName) = <<>>) =>
             (/\ last'.err = "EmptyRoomName"
              /\ rooms' = rooms /\ opened' = opened)
       /\ (Did("CreateRoom") /\ AskedCapacity \notin MinPlayers..MaxPlayers) =>
             (/\ last'.err = "InvalidMaxPlayers"
              /\ rooms' = rooms /\ opened' = opened)]_vars

\* C21 amended: a CreateRoom with a blank name fails EmptyRoomName, whatever
\* the capacity; one with a name that is not blank and a capacity outside
\* 2..8 fails InvalidMaxPlayers; neither opens a chain nor changes rooms,
\* and every stored metadata has a name that is not blank and a capacity
\* in 2..8.
C21_Validation ==
    [][/\ ValidMetadata(rooms) /\ ValidMetadata(rooms')
       /\ (Did("CreateRoom") /\ Trim(AskedName) = <<>>) =>
             (/\ last'.err = "EmptyRoomName"
              /\ rooms' = rooms /\ opened' = opened)
       /\ (/\ Did("CreateRoom")
           /\ Trim(AskedName) # <<>>
           /\ AskedCapacity \notin MinPlayers..MaxPlayers) =>
             (/\ last'.err = "InvalidMaxPlayers"
              /\ rooms' = rooms /\ opened' = opened)]_vars

\* C21 witness: with a room registered, a request with a good name and a
\* capacity above the range was refused.
C21_Witness ==
    /\ last.op = "CreateRoom" /\ last.err = "InvalidMaxPlayers"
    /\ Unwrap(last.max_players) > MaxPlayers
    /\ rooms # <<>>

\* C21 witness for the name: a request with a blank name that is not the
\* empty string was refused.
C21_WitnessBlankName ==
    /\ last.op = "CreateRoom" /\ last.err = "EmptyRoomName"
    /\ Unwrap(last.room_name) # <<>>
    /\ Unwrap(last.max_players) \in MinPlayers..MaxPlayers

\* The operations that read the caller identity.
NeedsSigner == {"JoinRoom", "StartDraft", "PickItem", "CreateRoom"}

\* The step changed neither the room nor the Lobby.
NothingChanged == room' = room /\ rooms' = rooms /\ opened' = opened

\* C25 as stated: JoinRoom, StartDraft, PickItem and CreateRoom without a
\* caller identity fail AuthenticationRequired and change nothing, and no
\* operation with a caller identity fails AuthenticationRequired.
C25_Original ==
    [][/\ (last'.op \in NeedsSigner /\ last'.signer = {}) =>
             (last'.err = "AuthenticationRequired" /\ NothingChanged)
       /\ (last'.signer # {}) => (last'.err # "AuthenticationRequired")]_vars

\* C25 amended: JoinRoom, StartDraft and PickItem without a caller identity,
\* and CreateRoom without one when the name is not blank and the capacity
\* is in 2..8, fail AuthenticationRequired and change nothing; a CreateRoom
\* without a caller identity and with a blank name or a capacity outside
\* 2..8 fails with the validation error, also without a change; no
\* operation with a caller identity fails AuthenticationRequired.
C25_AuthenticationRequired ==
    [][/\ (last'.op \in NeedsSigner \ {"CreateRoom"} /\ last'.signer = {}) =>
             (last'.err = "AuthenticationRequired" /\ NothingChanged)
       /\ (Did("CreateRoom") /\ last'.signer = {}) =>
             (/\ NothingChanged
              /\ last'.err =
                   IF Trim(AskedName) = <<>> THEN "EmptyRoomName"
                   ELSE IF AskedCapacity \notin MinPlayers..MaxPlayers
                        THEN "InvalidMaxPlayers"
                   ELSE "AuthenticationRequired")
       /\ (last'.signer # {}) => (last'.err # "AuthenticationRequired")]_vars

\* C25 witness: a CreateRoom with a good name and capacity and no caller
\* identity was refused.
C25_Witness ==
    /\ last.op = "CreateRoom" /\ last.err = "AuthenticationRequired"
    /\ last.signer = {}
    /\ Trim(Unwrap(last.room_name)) # <<>>
    /\ Unwrap(last.max_players) \in MinPlayers..MaxPlayers

\* C25 witness in a room: a PickItem without a caller identity was refused
\* during the draft.
C25_WitnessPickItem ==
    /\ last.op = "PickItem" /\ last.err = "AuthenticationRequired"
    /\ last.signer = {}
    /\ room.status = "Drafting"
    /\ Len(room.players) >= MinPlayers

\* C29: a successful PickItem that ends a round and leaves the room
\* Drafting makes its caller the active player of the next round.
C29_RoundBoundary ==
    [][(/\ Did("PickItem") /\ last'.err = "Ok"
        /\ room'.round = room.round + 1
        /\ room'.status = "Drafting") =>
          (/\ room'.current_turn = 0
           /\ get_current_player(room') = last'.signer
           /\ ActivePlayer(room) = ActivePlayer(room'))]_vars

\* C29 witness: in a room of two, the second player picked last in round 1
\* and round 2 has begun.
C29_Witness ==
    /\ last.op = "PickItem" /\ last.err = "Ok"
    /\ Len(room.players) = 2
    /\ room.status = "Drafting"
    /\ room.round = 2 /\ room.current_turn = 0
    /\ last.signer = {room.players[2]}

\* C29 witness at the next boundary: the first player picked last in round
\* 2 and opens round 3.
C29_WitnessRoundThree ==
    /\ last.op = "PickItem" /\ last.err = "Ok"
    /\ Len(room.players) >= 2
    /\ room.status = "Drafting"
    /\ room.round = 3 /\ room.current_turn = 0
    /\ last.signer = {room.players[1]}

Created == Did("CreateRoom") /\ last'.err = "Ok"

\* The chains opened by the step just taken.
NewChains == (DOMAIN opened') \ (DOMAIN opened)

C23_RegistryGrows ==
    [][\A id \in DOMAIN rooms :
          /\ id \in DOMAIN rooms'
          /\ rooms'[id].room_name = rooms[id].room_name
          /\ rooms'[id].max_players = rooms[id].max_players]_vars

\* C23 witness: a CreateRoom succeeded after the entry of chain 1 was
\* stored, with another capacity, and the room of chain 1 has started.
C23_Witness ==
    /\ last.op = "CreateRoom" /\ last.err = "Ok"
    /\ Cardinality(DOMAIN rooms) = 2
    /\ rooms[1].max_players # Unwrap(last.max_players)
    /\ instances[1].status # "Waiting"

\* C24: after a successful CreateRoom the creator of the new room is the
\* caller of that CreateRoom.
C24_CreatorIsCaller ==
    [][Created =>
          \A id \in NewChains : instances'[id].creator = last'.signer]_vars

\* The operations clients send to a DraftRoom chain.
ChainOperations ==
    [op : {"JoinRoom", "StartDraft", "PickItem", "FinalizeDraft"},
     signer : ChainSigners]

\* The outcome of the operation o on the instance r.
Handle(r, o) ==
    CASE o.op = "JoinRoom"      -> JoinRoomOp(r, o.signer)
      [] o.op = "StartDraft"    -> StartDraftOp(r, o.signer)
      [] o.op = "PickItem"      -> PickItemOp(r, o.signer, ChainItemId(r))
      [] o.op = "FinalizeDraft" -> FinalizeDraftOp(r)

\* The instances after the operation o on the chain c.
After(insts, c, o) == ExecuteAt(insts, c, Handle(insts[c], o))

\* The step just taken was an operation on a DraftRoom chain.
DidAtChain == last'.op \in {"JoinRoom", "StartDraft", "PickItem", "FinalizeDraft"}

C27_CallerIsPlayerOwner ==
    [][("player_id" \in DOMAIN last' /\ last'.err # "NotExecuted") =>
          last'.signer = Some(last'.player_owner)]_vars

\* s is a prefix of t.
Prefix(s, t) == Len(s) <= Len(t) /\ SubSeq(t, 1, Len(s)) = s

\* C31: in every step that changes the room the pick list of a player only
\* grows at its end and, from StartDraft on, the pool gains no item; in
\* every state an item in a pick list is neither in the pool nor in
\* another player's list.
C31_OwnershipPermanent ==
    /\ [][(room' # room) =>
              ((\A p \in DOMAIN room.picks :
                   /\ p \in DOMAIN room'.picks
                   /\ Prefix(room.picks[p], room'.picks[p]))
               /\
               ((room.status # "Waiting") =>
                   (/\ Range(room'.pool) \subseteq Range(room.pool)
                    /\ Len(room'.pool) <= Len(room.pool))))]_vars
    /\ [](\A p \in DOMAIN room.picks :
              /\ Ids(room.picks[p]) \cap Ids(room.pool) = {}
              /\ \A q \in (DOMAIN room.picks) \ {p} :
                    Ids(room.picks[p]) \cap Ids(room.picks[q]) = {})

\* C31 witness: the draft is over and two players hold the items they
\* picked, the first of them item 7.
C31_Witness ==
    /\ room.status = "Finished"
    /\ Len(room.players) >= MinPlayers
    /\ \A p \in DOMAIN room.picks : Len(room.picks[p]) = room.max_rounds
    /\ \E p \in DOMAIN room.picks : room.picks[p][1].id = 7

\* C32: in a Drafting room with no players every PickItem with a caller
\* identity fails NotYourTurn and changes nothing.
C32_EmptyRoster ==
    [][(/\ DidBy("PickItem")
        /\ room.status = "Drafting"
        /\ room.players = <<>>) =>
          (/\ last'.err = "NotYourTurn"
           /\ room' = room)]_vars

\* C32 witness: a PickItem for an item of the pool was refused by a room
\* started with no players.
C32_Witness ==
    /\ last.op = "PickItem" /\ last.err = "NotYourTurn"
    /\ room.status = "Drafting"
    /\ room.players = <<>>
    /\ last.item_id \subseteq Ids(room.pool)
    /\ Len(room.pool) = 15

\* C34: in a Drafting room with n >= 1 players, 0 <= current_turn < n and
\* 1 <= round <= max_rounds, the index of the active player is within
\* players, and the next values of the counters fit in 8 bits.
C34_CountersInRange ==
    (room.status = "Drafting" /\ Len(room.players) >= 1) =>
        LET n == Len(room.players)
            index == IF room.round % 2 = 1
                     THEN room.current_turn % n
                     ELSE (n - 1) - (room.current_turn % n)
        IN  /\ room.current_turn \in 0..(n - 1)
            /\ room.round \in 1..room.max_rounds
            /\ index \in 0..(n - 1)
            /\ get_current_player(room) = {room.players[index + 1]}
            /\ room.current_turn + 1 < U8Mod
            /\ room.round + 1 < U8Mod
            /\ n < U8Mod

\* C34 witness: the last turn of round 2 in a full room of eight.
C34_Witness ==
    /\ room.status = "Drafting"
    /\ Len(room.players) = MaxPlayers
    /\ room.current_turn = MaxPlayers - 1
    /\ room.round = 2

\* C35: the numbers of items of any two players differ by at most 1, and
\* when current_turn is 0 every player holds round - 1 items.
C35_Fairness ==
    /\ \A p, q \in Range(room.players) :
          Len(room.picks[p]) - Len(room.picks[q]) \in {-1, 0, 1}
    /\ (room.current_turn = 0) =>
          \A p \in Range(room.players) : Len(room.picks[p]) = room.round - 1

\* C35 witness: round 2 has just ended in a room of three.
C35_Witness ==
    /\ room.status = "Drafting"
    /\ Len(room.players) = 3
    /\ room.round = 3 /\ room.current_turn = 0
    /\ \A p \in Range(room.players) : Len(room.picks[p]) = 2

\* C35 witness within a round: some players have picked in it and some
\* have not.
C35_WitnessMidRound ==
    /\ room.status = "Drafting"
    /\ room.current_turn > 0
    /\ \E p, q \in Range(room.players) : Len(room.picks[p]) = Len(room.picks[q]) + 1

\* C33: every started draft can complete, for every roster the capacities
\* 2..8 allow: while a room with at least two players is Drafting a pick
\* is due, and the pool still holds an item for it (the pool is never
\* exhausted before the room is Finished).
C33_PoolNeverExhausted ==
    (room.status = "Drafting" /\ Len(room.players) >= MinPlayers) =>
        room.pool # <<>>

\* C36: an operation executed on a contract of the other type does not
\* end in success and changes nothing.
C36_WrongTypeRejected ==
    [][("target" \in DOMAIN last') =>
          (last'.err # "Ok" /\ NothingChanged)]_vars

\* C37: a reload of the room between two operations leaves every field of
\* the room as the last operation left it.
C37_StatePersists ==
    [][Did("Reload") => room' = room]_vars

\* C38: once the room of a chain is Drafting the Lobby entry of the chain
\* leaves Waiting at some time, once it is Finished the entry shows Finished
\* at some time, and the entry never shows a status the room has not
\* reached.
C38_StatusMirrored ==
    \A id \in 1..MaxChains :
        /\ (id \in DOMAIN instances /\ instances[id].status = "Drafting") ~>
              (id \in DOMAIN rooms /\ rooms[id].status # "Waiting")
        /\ (id \in DOMAIN instances /\ instances[id].status = "Finished") ~>
              (id \in DOMAIN rooms /\ rooms[id].status = "Finished")
        /\ [](id \in DOMAIN rooms =>
                \/ rooms[id].status = "Waiting"
                \/ rooms[id].status = "Drafting" /\ instances[id].status # "Waiting"
                \/ rooms[id].status = "Finished" /\ instances[id].status = "Finished")

\* C39: a pick_item request for an item id outside 1..15 reaches the room
\* with that id, does not end in a successful PickItem and leaves the pool
\* as it was.
C39_InvalidIdStaysInvalid ==
    [][("input_item_id" \in DOMAIN last' /\ last'.input_item_id \notin CatalogIds) =>
          (/\ last'.err # "Ok"
           /\ room'.pool = room.pool)]_vars

\* The error of the Lobby's validation for a name and a capacity, "Ok" when
\* both pass.
Validation(room_name, max_players) ==
    IF Trim(room_name) = <<>> THEN "EmptyRoomName"
    ELSE IF max_players \notin MinPlayers..MaxPlayers THEN "InvalidMaxPlayers"
    ELSE "Ok"

\* C40: CreateRoom checks the name, then the capacity, then the caller: a
\* request that fails the validation fails with the validation's error
\* with or without a caller identity, a blank name deciding before the
\* capacity; and create_room of the gateway leaves unexecuted exactly the
\* requests whose name or capacity the Lobby would reject, changing
\* nothing.
C40_ValidationOrder ==
    [][/\ \A signer \in ArenaSigners, room_name \in RoomNameInputs,
             max_players \in MaxPlayersInputs :
             LET out == CreateRoomOp(rooms, opened, signer, room_name, max_players)
             IN  /\ (Validation(room_name, max_players) # "Ok") =>
                       (/\ out.err = Validation(room_name, max_players)
                        /\ out.rooms = rooms /\ out.opened = opened)
                 /\ (Validation(room_name, max_players) = "Ok") =>
                       (out.err = IF signer = {} THEN "AuthenticationRequired" ELSE "Ok")
       /\ (Did("CreateRoom") /\ "player_id" \in DOMAIN last') =>
             (/\ (last'.err = "NotExecuted") <=>
                    (CreateRoomOp(rooms, opened, ClientSigner, AskedName,
                                  AskedCapacity).err
                       \in {"EmptyRoomName", "InvalidMaxPlayers"})
              /\ (last'.err = "NotExecuted") => NothingChanged)]_vars

\* C40 witness: the gateway left unexecuted a request with a blank name and
\* a capacity above the range.
C40_Witness ==
    /\ last.op = "CreateRoom" /\ last.err = "NotExecuted"
    /\ Trim(Unwrap(last.room_name)) = <<>>
    /\ Unwrap(last.max_players) > MaxPlayers

\* C40 witness of the other side: the gateway executed a request and the
\* Lobby stored the room.
C40_WitnessExecuted ==
    /\ last.op = "CreateRoom" /\ last.err = "Ok"
    /\ "player_id" \in DOMAIN last
    /\ rooms # <<>>

====
